---- MODULE Spec2Model ----
(***************************************************************************)
(* Anvil consensus node (consensus-node.cjs): one node's state and its     *)
(* HTTP handlers, epoch loop and gossip loop.  The node modelled is        *)
(* NODE_NAME; every other participant is the network, which may deliver    *)
(* any message of the bounded universes defined below to the node's        *)
(* endpoints.                                                              *)
(***************************************************************************)
EXTENDS Integers, Sequences, FiniteSets, TLC

VARIABLES
    peers,                \* state.peers: peerId -> [publicKeyHash, effectiveness]
    chain,                \* state.chain
    pendingReceipts,      \* state.pendingReceipts
    pendingTransactions,  \* state.pendingTransactions
    accounts,             \* state.accounts: address -> [balance, nonce]
    currentEpoch,         \* state.currentEpoch
    currentView,          \* state.currentView
    proposedBlock,        \* state.proposedBlock
    votes,                \* state.votes: voter -> signature
    viewChangeVotes,      \* state.viewChangeVotes: <<epoch, newView>> -> set of senders
    seenProposals,        \* state.seenProposals: epoch -> (hash -> block)
    slashedNodes,         \* state.slashedNodes
    slashEvents,          \* state.stats.slashEvents
    effectiveness,        \* state.effectiveness
    runs,                 \* activations of runEpoch that are suspended at an await
    ticks,                \* number of runEpoch activations started (the epoch timer)
    heard,                \* history: the blocks received on /propose so far
    slashDebits,          \* history: the sum of the debits slashNode has applied
    disk,                 \* chain.json and accounts.json in DATA_DIR
    last                  \* the last step: handler, input, response, messages sent

vars == <<peers, chain, pendingReceipts, pendingTransactions, accounts,
          currentEpoch, currentView, proposedBlock, votes, viewChangeVotes,
          seenProposals, slashedNodes, slashEvents, effectiveness, runs,
          ticks, heard, slashDebits, disk, last>>

-----------------------------------------------------------------------------
(* Bounds of the model *)

MaxTicks == 2        \* runEpoch activations
MaxChain == 2        \* blocks in state.chain
MaxPool == 2
MaxLeaves == 5         \* transactions in state.pendingTransactions
MaxSeen == 2         \* blocks held in state.seenProposals

-----------------------------------------------------------------------------
(* CONFIG *)

QuorumNum == 67          \* quorumFraction: 0.67, as hundredths
QuorumDen == 100
slashAmount == 500
rewardPerEpoch == 100
faucetAmount == 1000
EquivocationWindow == 10 \* seenProposals keeps the last 10 epochs
MinCommitVotes == 2      \* handleCommittedBlock: voteCount < 2 is rejected
EffScale == 10000        \* effectiveness is kept in ten-thousandths
RampKeep == 9998         \* exp(-(1/144)/rampConstant), in ten-thousandths
DecayKeep == 9990        \* exp(-(1/144)/decayConstant), in ten-thousandths

-----------------------------------------------------------------------------
(* Identities *)

NODE_NAME == "n1"
PeerNames == {"n2", "n3"}
Names == {NODE_NAME} \cup PeerNames

\* The PEM public key of each participant; "badkey" is a string that
\* crypto.createPublicKey cannot parse.
KeyOf(name) == CASE name = "n1" -> "pk1" [] name = "n2" -> "pk2" [] OTHER -> "pk3"
Keys == {"pk1", "pk2", "pk3"}
BadKey == "badkey"

\* publicKeyHash: sha256 of the DER key, first 40 hex digits.
AddressOf(pk) == CASE pk = "pk1" -> "a1" [] pk = "pk2" -> "a2" [] OTHER -> "a3"
IDENTITY == [name |-> NODE_NAME, publicKeyPem |-> KeyOf(NODE_NAME),
             publicKeyHash |-> AddressOf(KeyOf(NODE_NAME))]
Coinbase == "coinbase"

-----------------------------------------------------------------------------
(* Crypto functions.  A signature is the pair of the signing key and the   *)
(* signed data; a digest is the hashed value under a tag, so that hash is  *)
(* injective.                                                              *)

sign(key, data) == [signer |-> key, msg |-> data]

verify(data, signature, peerPublicKeyPem) ==
    /\ peerPublicKeyPem \in Keys
    /\ signature.signer = peerPublicKeyPem
    /\ signature.msg = data

hash(data) == <<"h", data>>

ZeroHash == <<"0">>

\* A signature made without the private key of the key it claims.
Forged(data) == [signer |-> "nokey", msg |-> data]

-----------------------------------------------------------------------------
(* Maps *)

Has(m, k) == k \in DOMAIN m
Put(m, k, v) == [x \in DOMAIN m \cup {k} |-> IF x = k THEN v ELSE m[x]]
Del(m, k) == [x \in DOMAIN m \ {k} |-> m[x]]
EmptyMap == << >>

Range(s) == {s[i] : i \in DOMAIN s}

RECURSIVE SetToSeq(_)
SetToSeq(S) == IF S = {} THEN << >>
               ELSE LET x == CHOOSE y \in S : TRUE IN <<x>> \o SetToSeq(S \ {x})

RECURSIVE SumOver(_, _)
SumOver(m, S) == IF S = {} THEN 0
                 ELSE LET k == CHOOSE y \in S : TRUE IN m[k] + SumOver(m, S \ {k})

Min2(a, b) == IF a < b THEN a ELSE b

\* Sum of the balances of an account map.
SumBalances(acc) == SumOver([a \in DOMAIN acc |-> acc[a].balance], DOMAIN acc)

\* state.accounts.get(addr) || { balance: 0, nonce: 0 }
AccountOf(acc, addr) == IF Has(acc, addr) THEN acc[addr] ELSE [balance |-> 0, nonce |-> 0]

-----------------------------------------------------------------------------
(* Merkle roots.  A digest is a string of 64 hex digits, so left + right   *)
(* determines both halves: the concatenation is the pair.                  *)

Concat(left, right) == <<left, right>>

\* A Merkle root that pairs the last node of an odd level with the first.
RECURSIVE calculateMerkleRootWrap(_)
calculateMerkleRootWrap(hashes) ==
    IF Len(hashes) = 0 THEN ZeroHash
    ELSE IF Len(hashes) = 1 THEN hashes[1]
    ELSE LET nextLevel ==
                 [k \in 1..((Len(hashes) + 1) \div 2) |->
                     LET left == hashes[2 * k - 1]
                         right == IF 2 * k <= Len(hashes) THEN hashes[2 * k]
                                  ELSE hashes[1]
                     IN hash(Concat(left, right))]
         IN calculateMerkleRootWrap(nextLevel)

\* calculateMerkleRoot
RECURSIVE calculateMerkleRoot(_)
calculateMerkleRoot(hashes) ==
    IF Len(hashes) = 0 THEN ZeroHash
    ELSE IF Len(hashes) = 1 THEN hashes[1]
    ELSE LET nextLevel ==
                 [k \in 1..((Len(hashes) + 1) \div 2) |->
                     LET left == hashes[2 * k - 1]
                         right == IF 2 * k <= Len(hashes) THEN hashes[2 * k] ELSE left
                     IN hash(Concat(left, right))]
         IN calculateMerkleRoot(nextLevel)

\* items.map(x => hash(x))
HashesOf(items) == [i \in DOMAIN items |-> hash(items[i])]

\* indexOf, counted from 1; 0 when the element is absent.
IndexOf(items, x) ==
    IF \E i \in DOMAIN items : items[i] = x
    THEN CHOOSE i \in DOMAIN items :
             items[i] = x /\ \A j \in 1..(i - 1) : items[j] # x
    ELSE 0

\* The level above a level of a Merkle tree.
NextLevel(level) ==
    [k \in 1..((Len(level) + 1) \div 2) |->
        LET left == level[2 * k - 1]
            right == IF 2 * k <= Len(level) THEN level[2 * k] ELSE left
        IN hash(Concat(left, right))]

\* getMerkleProof returns null for a hash that is no leaf.
NoProof == [null |-> TRUE]

\* A proof path whose markers are inverted.
RECURSIVE ProofPathInverted(_, _)
ProofPathInverted(level, idx) ==
    IF Len(level) <= 1 THEN << >>
    ELSE LET sibling == IF idx % 2 = 0
                        THEN IF idx + 2 <= Len(level) THEN level[idx + 2]
                             ELSE level[idx + 1]
                        ELSE level[idx]
         IN <<[hash |-> sibling, isLeft |-> idx % 2 = 0]>>
                \o ProofPathInverted(NextLevel(level), idx \div 2)

getMerkleProofInverted(block, txHash) ==
    LET txHashes == HashesOf(block.transactions)
        index == IndexOf(txHashes, txHash) - 1
    IN IF index = -1 THEN NoProof ELSE ProofPathInverted(txHashes, index)

\* The while loop of getMerkleProof; idx counts from 0 as in the code.
RECURSIVE ProofPath(_, _)
ProofPath(level, idx) ==
    IF Len(level) <= 1 THEN << >>
    ELSE LET sibling == IF idx % 2 = 0
                        THEN IF idx + 2 <= Len(level) THEN level[idx + 2]
                             ELSE level[idx + 1]
                        ELSE level[idx]
         IN <<[hash |-> sibling, isLeft |-> idx % 2 = 1]>>
                \o ProofPath(NextLevel(level), idx \div 2)

getMerkleProof(block, txHash) ==
    LET txHashes == HashesOf(block.transactions)
        index == IndexOf(txHashes, txHash) - 1
    IN IF index = -1 THEN NoProof ELSE ProofPath(txHashes, index)

\* The running hash of verifyMerkleProof after the steps of a proof.
RECURSIVE FoldProof(_, _)
FoldProof(current, proof) ==
    IF proof = << >> THEN current
    ELSE FoldProof(IF Head(proof).isLeft
                   THEN hash(Concat(Head(proof).hash, current))
                   ELSE hash(Concat(current, Head(proof).hash)),
                   Tail(proof))

verifyMerkleProof(txHash, proof, root) == FoldProof(txHash, proof) = root

\* calculateStateRoot: the entries "addr:balance:nonce" of the accounts under
\* the overlay, sorted, joined and hashed.  No address occurs twice, so the
\* sorted list is given by the set of its entries.
calculateStateRoot(acc, balances, nonces) ==
    LET existing == {<<addr,
                       IF Has(balances, addr) THEN balances[addr] ELSE acc[addr].balance,
                       IF Has(nonces, addr) THEN nonces[addr] ELSE acc[addr].nonce>> :
                        addr \in DOMAIN acc}
        fresh == {<<addr, balances[addr],
                    IF Has(nonces, addr) THEN nonces[addr] ELSE 0>> :
                     addr \in DOMAIN balances \ DOMAIN acc}
    IN hash([entries |-> existing \cup fresh])

-----------------------------------------------------------------------------
(* Blocks *)

NoBlock == [none |-> TRUE]

\* { ...block, hash: undefined, leaderSignature: undefined, votes: undefined }:
\* JSON.stringify drops the three fields.
BlockData(block) ==
    [f \in DOMAIN block \ {"hash", "leaderSignature", "votes"} |-> block[f]]

\* The header a leader holding `key` builds and signs (createBlock's tail).
SealBlock(data, key) ==
    LET h == hash(data)
    IN [epoch |-> data.epoch, previousHash |-> data.previousHash,
        leader |-> data.leader, leaderPubKey |-> data.leaderPubKey,
        timestamp |-> data.timestamp,
        txRoot |-> data.txRoot, receiptRoot |-> data.receiptRoot,
        stateRoot |-> data.stateRoot,
        receipts |-> data.receipts,
        transactions |-> data.transactions,
        effectivenessUpdates |-> data.effectivenessUpdates,
        rewards |-> data.rewards,
        hash |-> h, leaderSignature |-> sign(key, h), votes |-> EmptyMap]

HeadHash(ch) == IF Len(ch) > 0 THEN ch[Len(ch)].hash ELSE ZeroHash

CeilDiv(a, b) == (a + b - 1) \div b

\* Math.ceil(totalNodes * CONFIG.quorumFraction)
VotesNeeded(totalNodes) == CeilDiv(totalNodes * QuorumNum, QuorumDen)

-----------------------------------------------------------------------------
(* Transactions *)

\* validateTransaction: balance and nonce against the committed accounts.
validateTransaction(acc, tx) ==
    LET account == AccountOf(acc, tx.from)
    IN /\ ~(account.balance < tx.amount)
       /\ tx.nonce = account.nonce + 1

\* applyTransaction: no special case for coinbase.
applyTransaction(acc, tx) ==
    LET fromAccount == AccountOf(acc, tx.from)
        from2 == [balance |-> fromAccount.balance - tx.amount, nonce |-> tx.nonce]
        acc1 == Put(acc, tx.from, from2)
        \* toAccount is read before either write; when from = to and the
        \* account exists both names denote one object, otherwise the second
        \* set stores the fresh recipient object.
        toAccount == IF tx.to = tx.from /\ Has(acc, tx.from) THEN from2
                     ELSE AccountOf(acc, tx.to)
        to2 == [balance |-> toAccount.balance + tx.amount, nonce |-> toAccount.nonce]
    IN Put(acc1, tx.to, to2)

RECURSIVE ApplyTransactions(_, _)
ApplyTransactions(acc, txs) ==
    IF txs = << >> THEN acc
    ELSE ApplyTransactions(applyTransaction(acc, Head(txs)), Tail(txs))

\* Rewards of a block, credited address by address.
RECURSIVE ApplyRewards(_, _, _)
ApplyRewards(acc, rewards, addrs) ==
    IF addrs = {} THEN acc
    ELSE LET a == CHOOSE x \in addrs : TRUE
             old == AccountOf(acc, a)
         IN ApplyRewards(Put(acc, a, [balance |-> old.balance + rewards[a],
                                       nonce |-> old.nonce]),
                         rewards, addrs \ {a})

\* The filter without its nonce test.
RECURSIVE FilterRunAnyNonce(_, _, _, _, _)
FilterRunAnyNonce(acc, txs, tempBalances, tempNonces, validTxs) ==
    IF txs = << >>
    THEN [validTxs |-> validTxs, tempBalances |-> tempBalances, tempNonces |-> tempNonces]
    ELSE
      LET tx == Head(txs)
          balOf(bals, a) == IF Has(bals, a) THEN bals[a] ELSE AccountOf(acc, a).balance
      IN IF tx.from = Coinbase
         THEN FilterRunAnyNonce(acc, Tail(txs),
                        Put(tempBalances, tx.to, balOf(tempBalances, tx.to) + tx.amount),
                        tempNonces, Append(validTxs, tx))
         ELSE
           LET currentBalance == balOf(tempBalances, tx.from)
           IN IF currentBalance < tx.amount
              THEN FilterRunAnyNonce(acc, Tail(txs), tempBalances, tempNonces, validTxs)
              ELSE LET b1 == Put(tempBalances, tx.from, currentBalance - tx.amount)
                       b2 == Put(b1, tx.to, balOf(b1, tx.to) + tx.amount)
                   IN FilterRunAnyNonce(acc, Tail(txs), b2,
                                        Put(tempNonces, tx.from, tx.nonce),
                                        Append(validTxs, tx))

\* createBlock's sequential filter with its temporary balance and nonce maps:
\* the kept transactions and the two maps at the end of the loop.
RECURSIVE FilterRun(_, _, _, _, _)
FilterRun(acc, txs, tempBalances, tempNonces, validTxs) ==
    IF txs = << >>
    THEN [validTxs |-> validTxs, tempBalances |-> tempBalances, tempNonces |-> tempNonces]
    ELSE
      LET tx == Head(txs)
          balOf(bals, a) == IF Has(bals, a) THEN bals[a] ELSE AccountOf(acc, a).balance
      IN IF tx.from = Coinbase
         THEN FilterRun(acc, Tail(txs),
                        Put(tempBalances, tx.to, balOf(tempBalances, tx.to) + tx.amount),
                        tempNonces, Append(validTxs, tx))
         ELSE
           LET currentBalance == balOf(tempBalances, tx.from)
               currentNonce == IF Has(tempNonces, tx.from) THEN tempNonces[tx.from]
                               ELSE AccountOf(acc, tx.from).nonce
           IN IF currentBalance < tx.amount \/ tx.nonce # currentNonce + 1
              THEN FilterRun(acc, Tail(txs), tempBalances, tempNonces, validTxs)
              ELSE LET b1 == Put(tempBalances, tx.from, currentBalance - tx.amount)
                       b2 == Put(b1, tx.to, balOf(b1, tx.to) + tx.amount)
                   IN FilterRun(acc, Tail(txs), b2, Put(tempNonces, tx.from, tx.nonce),
                                Append(validTxs, tx))

\* The transactions the filter keeps.
FilterTxs(acc, txs, tempBalances, tempNonces, validTxs) ==
    FilterRun(acc, txs, tempBalances, tempNonces, validTxs).validTxs

-----------------------------------------------------------------------------
(* Effectiveness and rewards *)

\* peer?.effectiveness || (nodeId === NODE_NAME ? state.effectiveness : 0)
CurrentEff(prs, eff, nodeId) ==
    IF Has(prs, nodeId) /\ prs[nodeId].effectiveness # 0 THEN prs[nodeId].effectiveness
    ELSE IF nodeId = NODE_NAME THEN eff ELSE 0

\* Addresses of the nodes that calculateEffectivenessUpdates walks.
NodeAddress(prs, nodeId) ==
    IF Has(prs, nodeId) THEN prs[nodeId].publicKeyHash ELSE IDENTITY.publicKeyHash

calculateEffectivenessUpdates(prs, eff, receipts) ==
    LET allNodes == {NODE_NAME} \cup DOMAIN prs
        newEff(nodeId) ==
            LET wasOnline == \E i \in DOMAIN receipts :
                                 receipts[i].to = nodeId /\ receipts[i].success
                cur == CurrentEff(prs, eff, nodeId)
            IN IF wasOnline
               THEN EffScale - ((EffScale - cur) * RampKeep) \div EffScale
               ELSE (cur * DecayKeep) \div EffScale
        addrs == {NodeAddress(prs, n) : n \in allNodes}
        \* two node ids with one address: the one written last wins; peers
        \* follow NODE_NAME in iteration order.
        ownerOf(a) == IF \E n \in DOMAIN prs : prs[n].publicKeyHash = a
                      THEN CHOOSE n \in DOMAIN prs : prs[n].publicKeyHash = a
                      ELSE NODE_NAME
    IN [a \in addrs |-> newEff(ownerOf(a))]

calculateRewards(effectivenessUpdates) ==
    LET totalEff == SumOver(effectivenessUpdates, DOMAIN effectivenessUpdates)
        paid == {a \in DOMAIN effectivenessUpdates : effectivenessUpdates[a] > 0}
    IN IF totalEff = 0 THEN EmptyMap
       ELSE [a \in paid |-> (effectivenessUpdates[a] * rewardPerEpoch) \div totalEff]

createBlock(ch, acc, prs, eff, epoch, now, receipts, transactions) ==
    LET effectivenessUpdates == calculateEffectivenessUpdates(prs, eff, receipts)
        filtered == FilterRun(acc, transactions, EmptyMap, EmptyMap, << >>)
    IN SealBlock([epoch |-> epoch, previousHash |-> HeadHash(ch),
                  leader |-> NODE_NAME, leaderPubKey |-> IDENTITY.publicKeyPem,
                  timestamp |-> now,
                  txRoot |-> calculateMerkleRoot(HashesOf(filtered.validTxs)),
                  receiptRoot |-> calculateMerkleRoot(HashesOf(receipts)),
                  stateRoot |-> calculateStateRoot(acc, filtered.tempBalances,
                                                   filtered.tempNonces),
                  receipts |-> receipts,
                  transactions |-> filtered.validTxs,
                  effectivenessUpdates |-> effectivenessUpdates,
                  rewards |-> calculateRewards(effectivenessUpdates)],
                 IDENTITY.publicKeyPem)

-----------------------------------------------------------------------------
(* Leader election *)

\* sha256("epoch-E-view-V").slice(0, 8) as its two 16-bit halves, tabulated
\* for the epochs and views the model reaches.
EpochHashPrefix(epoch, view) ==
    CASE epoch = 0 /\ view = 0 -> <<13707, 63964>>
      [] epoch = 0 /\ view = 1 -> <<61334, 64609>>
      [] epoch = 0 /\ view = 2 -> <<15062, 34354>>
      [] epoch = 0 /\ view = 3 -> <<49570, 50186>>
      [] epoch = 1 /\ view = 0 -> <<33722, 27844>>
      [] epoch = 1 /\ view = 1 -> <<48881, 43028>>
      [] epoch = 1 /\ view = 2 -> <<31231, 10357>>
      [] epoch = 1 /\ view = 3 -> <<31714, 50364>>
      [] epoch = 2 /\ view = 0 -> <<30697, 10334>>
      [] epoch = 2 /\ view = 1 -> <<6925, 53050>>
      [] epoch = 2 /\ view = 2 -> <<5221, 65138>>
      [] epoch = 2 /\ view = 3 -> <<4745, 53392>>
      [] epoch = 3 /\ view = 0 -> <<56787, 35863>>
      [] epoch = 3 /\ view = 1 -> <<60542, 21157>>
      [] epoch = 3 /\ view = 2 -> <<8343, 52421>>
      [] epoch = 3 /\ view = 3 -> <<52542, 3101>>
      [] epoch = 4 /\ view = 0 -> <<47801, 19523>>
      [] epoch = 4 /\ view = 1 -> <<41999, 49573>>
      [] epoch = 4 /\ view = 2 -> <<48565, 30867>>
      [] epoch = 4 /\ view = 3 -> <<6510, 19204>>
      [] epoch = 5 /\ view = 0 -> <<53462, 17278>>
      [] epoch = 5 /\ view = 1 -> <<41192, 20846>>
      [] epoch = 5 /\ view = 2 -> <<1330, 317>>
      [] epoch = 5 /\ view = 3 -> <<27343, 37468>>
      [] epoch = 6 /\ view = 0 -> <<7648, 25228>>
      [] epoch = 6 /\ view = 1 -> <<57032, 21841>>
      [] epoch = 6 /\ view = 2 -> <<65371, 44506>>
      [] epoch = 6 /\ view = 3 -> <<34398, 60092>>
      [] epoch = 7 /\ view = 0 -> <<39446, 41002>>
      [] epoch = 7 /\ view = 1 -> <<38570, 7096>>
      [] epoch = 7 /\ view = 2 -> <<22830, 52315>>
      [] epoch = 7 /\ view = 3 -> <<52645, 16623>>
      [] epoch = 8 /\ view = 0 -> <<16502, 57106>>
      [] epoch = 8 /\ view = 1 -> <<17725, 42299>>
      [] epoch = 8 /\ view = 2 -> <<33174, 62352>>
      [] epoch = 8 /\ view = 3 -> <<21758, 43365>>

\* parseInt(prefix, 16) % n, computed on the halves.
PrefixMod(prefix, n) == ((prefix[1] % n) * (65536 % n) + prefix[2]) % n

\* Position of a name in the sorted list of names (Array.prototype.sort on
\* strings).
NameRank(name) == CASE name = "n1" -> 1 [] name = "n2" -> 2 [] OTHER -> 3

\* [NODE_NAME, ...state.peers.keys()].sort(); a peer registered under
\* NODE_NAME makes the name occur twice.
SortedNodes(prs) ==
    LET dup == IF NODE_NAME \in DOMAIN prs THEN <<NODE_NAME>> ELSE << >>
        RECURSIVE Ordered(_)
        Ordered(S) == IF S = {} THEN << >>
                      ELSE LET m == CHOOSE x \in S : \A y \in S : NameRank(x) <= NameRank(y)
                           IN <<m>> \o Ordered(S \ {m})
    IN dup \o Ordered({NODE_NAME} \cup DOMAIN prs)

electLeader(prs, view, epoch) ==
    LET allNodes == SortedNodes(prs)
        index == PrefixMod(EpochHashPrefix(epoch, view), Len(allNodes))
    IN allNodes[index + 1]

-----------------------------------------------------------------------------
(* Equivocation detection and slashing *)

\* Insertion order of a Map whose keys are digests does not matter to
\* checkEquivocation's verdict: any conflicting entry makes it report.
Conflicts(epochProposals, block) ==
    {h \in DOMAIN epochProposals :
        epochProposals[h].leader = block.leader /\ h # block.hash}

\* checkEquivocation that reports nothing.
checkEquivocationBlind(seen, block) ==
    LET epochProposals == IF Has(seen, block.epoch) THEN seen[block.epoch] ELSE EmptyMap
    IN <<FALSE, Put(seen, block.epoch, Put(epochProposals, block.hash, block))>>

\* checkEquivocation: <<detected, seenProposals afterwards>>
checkEquivocation(seen, block) ==
    LET epochKey == block.epoch
        epochProposals == IF Has(seen, epochKey) THEN seen[epochKey] ELSE EmptyMap
    IN IF Conflicts(epochProposals, block) # {}
       THEN <<TRUE, seen>>
       ELSE LET stored == Put(seen, epochKey, Put(epochProposals, block.hash, block))
                oldestEpoch == CHOOSE e \in DOMAIN stored : \A f \in DOMAIN stored : e <= f
            IN <<FALSE, IF Cardinality(DOMAIN stored) > EquivocationWindow
                        THEN Del(stored, oldestEpoch) ELSE stored>>

\* slashNode without the slashedNodes check.
slashNodeAgain(slashed, events, acc, leaderPubKey) ==
    IF leaderPubKey \notin Keys THEN <<slashed, events, acc>>
    ELSE LET addr == AddressOf(leaderPubKey)
         IN <<slashed \cup {addr}, events + 1,
              IF Has(acc, addr)
              THEN Put(acc, addr,
                       [balance |-> acc[addr].balance
                                    - Min2(acc[addr].balance, slashAmount),
                        nonce |-> acc[addr].nonce])
              ELSE acc>>

\* slashNode: <<slashedNodes, slashEvents, accounts>> afterwards
slashNode(slashed, events, acc, leaderPubKey) ==
    IF leaderPubKey \notin Keys THEN <<slashed, events, acc>>
    ELSE LET addr == AddressOf(leaderPubKey)
         IN IF addr \in slashed THEN <<slashed, events, acc>>
            ELSE <<slashed \cup {addr}, events + 1,
                   IF Has(acc, addr)
                   THEN Put(acc, addr,
                            [balance |-> acc[addr].balance
                                         - Min2(acc[addr].balance, slashAmount),
                             nonce |-> acc[addr].nonce])
                   ELSE acc>>

\* verifyBlockReceipts: a field that is absent (or empty) is falsy.
NoSignature == [none |-> TRUE]
NoChallengeId == << >>
NoName == ""
verifyBlockReceipts(block) ==
    \A i \in DOMAIN block.receipts :
        LET receipt == block.receipts[i]
        IN /\ receipt.signature # NoSignature
           /\ receipt.challengeId # NoChallengeId
           /\ receipt.from # NoName
           /\ receipt.to # NoName

-----------------------------------------------------------------------------
(* commitBlock *)

\* Effectiveness updates of a committed block, applied to the peer registry.
PeersAfterCommit(prs, block) ==
    [p \in DOMAIN prs |->
        IF Has(block.effectivenessUpdates, prs[p].publicKeyHash)
        THEN [prs[p] EXCEPT !.effectiveness =
                               block.effectivenessUpdates[prs[p].publicKeyHash]]
        ELSE prs[p]]

EffectivenessAfterCommit(eff, block) ==
    IF Has(block.effectivenessUpdates, IDENTITY.publicKeyHash)
    THEN block.effectivenessUpdates[IDENTITY.publicKeyHash] ELSE eff

AccountsAfterCommit(acc, block) ==
    ApplyTransactions(ApplyRewards(acc, block.rewards, DOMAIN block.rewards),
                      block.transactions)

\* state.pendingTransactions.filter(t => !includedTxHashes.has(hash(t)))
PendingTxAfterCommit(pending, block) ==
    SelectSeq(pending, LAMBDA t : t \notin Range(block.transactions))

\* state.pendingReceipts.filter(r => !includedReceiptIds.has(r.challengeId))
PendingReceiptsAfterCommit(pending, block) ==
    SelectSeq(pending, LAMBDA r :
        r.challengeId \notin {block.receipts[i].challengeId : i \in DOMAIN block.receipts})

\* The node's state as one record, so that a handler is a function of it.
State ==
    [peers |-> peers, chain |-> chain, pendingReceipts |-> pendingReceipts,
     pendingTransactions |-> pendingTransactions, accounts |-> accounts,
     currentEpoch |-> currentEpoch, currentView |-> currentView,
     proposedBlock |-> proposedBlock, votes |-> votes,
     viewChangeVotes |-> viewChangeVotes, seenProposals |-> seenProposals,
     slashedNodes |-> slashedNodes, slashEvents |-> slashEvents,
     effectiveness |-> effectiveness, disk |-> disk]

Store(s) ==
    /\ peers' = s.peers
    /\ chain' = s.chain
    /\ pendingReceipts' = s.pendingReceipts
    /\ pendingTransactions' = s.pendingTransactions
    /\ accounts' = s.accounts
    /\ currentEpoch' = s.currentEpoch
    /\ currentView' = s.currentView
    /\ proposedBlock' = s.proposedBlock
    /\ votes' = s.votes
    /\ viewChangeVotes' = s.viewChangeVotes
    /\ seenProposals' = s.seenProposals
    /\ slashedNodes' = s.slashedNodes
    /\ slashEvents' = s.slashEvents
    /\ effectiveness' = s.effectiveness
    /\ disk' = s.disk

\* saveChain: chain.json, then accounts.json.
saveChain(s) == [s EXCEPT !.disk = [chain |-> s.chain, accounts |-> s.accounts]]

commitBlock(s, block) ==
    saveChain(
        [s EXCEPT !.chain = Append(@, block),
                  !.effectiveness = EffectivenessAfterCommit(@, block),
                  !.peers = PeersAfterCommit(@, block),
                  !.accounts = AccountsAfterCommit(@, block),
                  !.pendingReceipts = PendingReceiptsAfterCommit(@, block),
                  !.pendingTransactions = PendingTxAfterCommit(@, block)])

-----------------------------------------------------------------------------
(* Consensus handlers *)

NoVote == [none |-> TRUE]

\* The vote handleBlockProposal returns.
VoteFor(block) ==
    [epoch |-> block.epoch, blockHash |-> block.hash, voter |-> NODE_NAME,
     voterPubKey |-> IDENTITY.publicKeyPem,
     signature |-> sign(IDENTITY.publicKeyPem, block.hash)]

HashMatches(block) == block.hash = hash(BlockData(block))

SignatureValid(block) == verify(block.hash, block.leaderSignature, block.leaderPubKey)

\* handleBlockProposal: <<state afterwards, response>>
handleBlockProposal(s, block) ==
    LET equivResult == checkEquivocation(s.seenProposals, block)
        s1 == [s EXCEPT !.seenProposals = equivResult[2]]
        refused(error) == [ok |-> FALSE, error |-> error, vote |-> NoVote]
    IN IF equivResult[1]
       THEN LET sl == slashNode(s.slashedNodes, s.slashEvents, s.accounts,
                                block.leaderPubKey)
            IN <<[s1 EXCEPT !.slashedNodes = sl[1], !.slashEvents = sl[2],
                            !.accounts = sl[3]],
                 refused("Equivocation detected")>>
       ELSE IF ~verifyBlockReceipts(block)
       THEN <<s1, refused("Receipt")>>
       ELSE IF block.previousHash # HeadHash(s.chain) /\ ~HashMatches(block)
       THEN <<s1, refused("Hash mismatch")>>
       ELSE IF block.previousHash # HeadHash(s.chain) /\ ~SignatureValid(block)
       THEN <<s1, refused("Invalid signature")>>
       ELSE <<[s1 EXCEPT !.proposedBlock = block],
              [ok |-> TRUE, error |-> "", vote |-> VoteFor(block)]>>

\* state.proposedBlock.votes = ...: the object a proposal stored in the
\* equivocation ledger is the object held as the active proposal, so the
\* ledger's entry carries the votes as well.
LedgerWithVotes(seen, block, blockVotes) ==
    IF Has(seen, block.epoch) /\ Has(seen[block.epoch], block.hash)
       /\ seen[block.epoch][block.hash] = block
    THEN Put(seen, block.epoch,
             Put(seen[block.epoch], block.hash, [block EXCEPT !.votes = blockVotes]))
    ELSE seen

\* handleVote without the comparison of the vote's blockHash with the active
\* proposal's hash.
handleVoteAnyProposal(s, vote) ==
    IF ~verify(vote.blockHash, vote.signature, vote.voterPubKey) THEN s
    ELSE IF s.proposedBlock = NoBlock THEN s
    ELSE LET s1 == [s EXCEPT !.votes = Put(@, vote.voter, vote.signature)]
             totalNodes == Cardinality(DOMAIN s.peers) + 1
         IN IF Cardinality(DOMAIN s1.votes) >= VotesNeeded(totalNodes)
            THEN [commitBlock(s1, [s1.proposedBlock EXCEPT !.votes = s1.votes])
                    EXCEPT !.proposedBlock = NoBlock, !.votes = EmptyMap,
                           !.seenProposals =
                               LedgerWithVotes(@, s1.proposedBlock, s1.votes)]
            ELSE s1

\* handleVote
handleVote(s, vote) ==
    IF ~verify(vote.blockHash, vote.signature, vote.voterPubKey) THEN s
    ELSE IF s.proposedBlock = NoBlock THEN s
    ELSE IF s.proposedBlock.hash # vote.blockHash THEN s
    ELSE LET s1 == [s EXCEPT !.votes = Put(@, vote.voter, vote.signature)]
             totalNodes == Cardinality(DOMAIN s.peers) + 1
         IN IF Cardinality(DOMAIN s1.votes) >= VotesNeeded(totalNodes)
            THEN [commitBlock(s1, [s1.proposedBlock EXCEPT !.votes = s1.votes])
                    EXCEPT !.proposedBlock = NoBlock, !.votes = EmptyMap,
                           !.seenProposals =
                               LedgerWithVotes(@, s1.proposedBlock, s1.votes)]
            ELSE s1

\* handleCommittedBlock
handleCommittedBlock(s, block) ==
    IF \E i \in DOMAIN s.chain : s.chain[i].hash = block.hash THEN s
    ELSE IF Cardinality(DOMAIN block.votes) < MinCommitVotes THEN s
    ELSE IF ~HashMatches(block) THEN s
    ELSE IF ~SignatureValid(block) THEN s
    ELSE commitBlock(s, block)

\* handleViewChange
handleViewChange(s, viewChange) ==
    IF viewChange.epoch # s.currentEpoch THEN s
    ELSE IF viewChange.newView <= s.currentView THEN s
    ELSE LET key == <<viewChange.epoch, viewChange.newView>>
             tally == (IF Has(s.viewChangeVotes, key) THEN s.viewChangeVotes[key] ELSE {})
                      \cup {viewChange.from}
             s1 == [s EXCEPT !.viewChangeVotes = Put(@, key, tally)]
             totalNodes == Cardinality(DOMAIN s.peers) + 1
         IN IF Cardinality(tally) >= VotesNeeded(totalNodes)
            THEN [s1 EXCEPT !.currentView = viewChange.newView,
                            !.proposedBlock = NoBlock, !.votes = EmptyMap]
            ELSE s1

\* rebuildStateFromChain: the account map replayed from the chain.
ReplayTx(acc, tx) ==
    IF tx.from = Coinbase
    THEN LET toAccount == AccountOf(acc, tx.to)
         IN Put(acc, tx.to, [balance |-> toAccount.balance + tx.amount,
                             nonce |-> toAccount.nonce])
    ELSE applyTransaction(acc, tx)

RECURSIVE ReplayTxs(_, _)
ReplayTxs(acc, txs) ==
    IF txs = << >> THEN acc ELSE ReplayTxs(ReplayTx(acc, Head(txs)), Tail(txs))

RECURSIVE rebuildStateFromChain(_, _)
rebuildStateFromChain(acc, ch) ==
    IF ch = << >> THEN acc
    ELSE rebuildStateFromChain(
             ReplayTxs(ApplyRewards(acc, Head(ch).rewards, DOMAIN Head(ch).rewards),
                       Head(ch).transactions),
             Tail(ch))

\* gossip(): the chain fetched from a peer replaces the local one when longer.
SyncChain(s, peerChain) ==
    IF Len(peerChain) > Len(s.chain)
    THEN saveChain(
             [s EXCEPT !.chain = peerChain,
                       !.currentEpoch = peerChain[Len(peerChain)].epoch,
                       !.accounts = rebuildStateFromChain(EmptyMap, peerChain)])
    ELSE s

-----------------------------------------------------------------------------
(* What the network can deliver *)

\* A block sealed by `key` under the name `leader`.
NetBlock(epoch, prev, leader, key, txs, rewards) ==
    LET filtered == FilterRun(EmptyMap, txs, EmptyMap, EmptyMap, << >>)
    IN SealBlock([epoch |-> epoch, previousHash |-> prev, leader |-> leader,
                  leaderPubKey |-> key, timestamp |-> 0,
                  txRoot |-> calculateMerkleRoot(HashesOf(txs)),
                  receiptRoot |-> calculateMerkleRoot(<< >>),
                  stateRoot |-> calculateStateRoot(EmptyMap, filtered.tempBalances,
                                                   filtered.tempNonces),
                  receipts |-> << >>,
                  transactions |-> txs, effectivenessUpdates |-> EmptyMap,
                  rewards |-> rewards], key)

\* The same block with a digest that is not the digest of its contents.
WithBadHash(block) ==
    LET h == hash([tampered |-> block.hash])
    IN [block EXCEPT !.hash = h, !.leaderSignature = sign(block.leaderPubKey, h)]

\* The same block with a signature that does not verify.
WithForgedSignature(block) == [block EXCEPT !.leaderSignature = Forged(block.hash)]

\* Votes of `voters`, each signed by the voter's key over the block's hash.
VotesOf(block, voters) ==
    [v \in voters |-> sign(KeyOf(v), block.hash)]

\* Entries that are not signatures over the block's hash.
JunkVotes(voters) == [v \in voters |-> Forged(ZeroHash)]

\* A chain of an unknown fork: the head a lagging node has not got.
ForeignHash == hash([fork |-> "unknown"])

\* A second block of the same leader for the same epoch, signed with the
\* same key: the contents differ in the timestamp.
Conflicting(block) ==
    SealBlock([BlockData(block) EXCEPT !.timestamp = @ + 1], block.leaderPubKey)

\* A block for the same epoch under the same leader name, built and signed by
\* the holder of another key.
Impostor(block, key) ==
    SealBlock([BlockData(block) EXCEPT !.leaderPubKey = key, !.timestamp = @ + 2], key)

TxTransfer(key, from, to, amount, nonce) ==
    [from |-> from, to |-> to, amount |-> amount, nonce |-> nonce,
     signature |-> sign(key, <<from, to, amount, nonce>>)]

TxCoinbase(to, amount) ==
    [from |-> Coinbase, to |-> to, amount |-> amount, nonce |-> 0,
     signature |-> sign(Coinbase, << >>)]

VoteMsg(voter, key, blockHash, signature) ==
    [epoch |-> 0, blockHash |-> blockHash, voter |-> voter, voterPubKey |-> key,
     signature |-> signature]

-----------------------------------------------------------------------------
(* Initial state: a fresh node, nothing on disk, no bootstrap peer *)

\* The response of a handler that answers { ok: true } and nothing else.
Ok == [ok |-> TRUE, error |-> "", vote |-> NoVote]

Step(op, arg, response, sent) ==
    [op |-> op, arg |-> arg, response |-> response, sent |-> sent]

Done(op) == Step(op, NoBlock, Ok, {})

Init ==
    /\ peers = EmptyMap
    /\ chain = << >>
    /\ pendingReceipts = << >>
    /\ pendingTransactions = << >>
    /\ accounts = EmptyMap
    /\ currentEpoch = 0
    /\ currentView = 0
    /\ proposedBlock = NoBlock
    /\ votes = EmptyMap
    /\ viewChangeVotes = EmptyMap
    /\ seenProposals = EmptyMap
    /\ slashedNodes = {}
    /\ slashEvents = 0
    /\ effectiveness = 0
    /\ runs = {}
    /\ ticks = 0
    /\ heard = {}
    /\ slashDebits = 0
    /\ disk = [chain |-> << >>, accounts |-> EmptyMap]
    /\ last = Done("init")

\* Number of proposals held in the equivocation ledger.
SeenCount(seen) ==
    LET sizes == [e \in DOMAIN seen |-> Cardinality(DOMAIN seen[e])]
    IN SumOver(sizes, DOMAIN seen)

-----------------------------------------------------------------------------
(* Peer registry *)

PeerRecord(id) == [publicKeyHash |-> AddressOf(KeyOf(id)), effectiveness |-> 0]

\* POST /announce
Announce(id) ==
    /\ Store([State EXCEPT !.peers = Put(@, id, PeerRecord(id))])
    /\ last' = Done("announce")
    /\ UNCHANGED <<runs, ticks, heard, slashDebits>>

\* An eviction that also abandons the active proposal.
EvictPeerAbandoning(id) ==
    /\ Has(peers, id)
    /\ Store([State EXCEPT !.peers = Del(@, id), !.proposedBlock = NoBlock,
                           !.votes = EmptyMap])
    /\ last' = Done("evict")
    /\ UNCHANGED <<runs, ticks, heard, slashDebits>>

\* gossip(): a peer that fails to answer after heartbeatTimeoutMs is deleted.
EvictPeer(id) ==
    /\ Has(peers, id)
    /\ Store([State EXCEPT !.peers = Del(@, id)])
    /\ last' = Done("evict")
    /\ UNCHANGED <<runs, ticks, heard, slashDebits>>

-----------------------------------------------------------------------------
(* Inbound consensus messages *)

\* POST /propose
Propose(block) ==
    LET r == handleBlockProposal(State, block)
    IN /\ SeenCount(r[1].seenProposals) <= MaxSeen
       /\ Store(r[1])
       /\ heard' = heard \cup {block}
       /\ slashDebits' = slashDebits + SumBalances(accounts) - SumBalances(r[1].accounts)
       /\ last' = Step("propose", block, r[2], {})
       /\ UNCHANGED <<runs, ticks>>

\* POST /vote
Vote(vote) ==
    LET s == handleVote(State, vote)
    IN /\ Len(s.chain) <= MaxChain
       /\ Store(s)
       /\ last' = Done("vote")
       /\ UNCHANGED <<runs, ticks, heard, slashDebits>>

\* POST /commit
Commit(block) ==
    LET s == handleCommittedBlock(State, block)
    IN /\ Len(s.chain) <= MaxChain
       /\ Store(s)
       /\ last' = Done("commit")
       /\ UNCHANGED <<runs, ticks, heard, slashDebits>>

\* POST /view-change
ViewChange(viewChange) ==
    /\ Store(handleViewChange(State, viewChange))
    /\ last' = Done("view-change")
    /\ UNCHANGED <<runs, ticks, heard, slashDebits>>

\* gossip(): GET /chain of a peer returned peerChain.
GossipSync(peerChain) ==
    /\ DOMAIN peers # {}
    /\ Store(SyncChain(State, peerChain))
    /\ last' = Done("sync")
    /\ UNCHANGED <<runs, ticks, heard, slashDebits>>

-----------------------------------------------------------------------------
(* Transaction pool endpoints *)

\* POST /transaction without the comparison of signatures.
submitTransactionUnchecked(pending, tx) == Append(pending, tx)

\* POST /transaction: the pool afterwards.
submitTransaction(pending, tx) ==
    IF \E i \in DOMAIN pending : pending[i].signature = tx.signature
    THEN pending ELSE Append(pending, tx)

\* POST /transaction
Transaction(tx) ==
    LET s == [State EXCEPT !.pendingTransactions = submitTransaction(@, tx)]
    IN /\ Len(s.pendingTransactions) <= MaxPool
       /\ Store(s)
       /\ last' = Done("transaction")
       /\ UNCHANGED <<runs, ticks, heard, slashDebits>>

\* POST /faucet at clock reading `now`: the coinbase transaction is pushed
\* without looking at the pool.
Faucet(amount, now) ==
    LET coinbaseTx == [TxCoinbase(IDENTITY.publicKeyHash, amount) EXCEPT !.nonce = now]
    IN /\ Store([State EXCEPT !.pendingTransactions = Append(@, coinbaseTx)])
       /\ last' = Done("faucet")
       /\ UNCHANGED <<runs, ticks, heard, slashDebits>>

\* The transaction /send builds: the signature covers the timestamp.
SendTx(to, amount, nonce, now) ==
    [from |-> IDENTITY.publicKeyHash, to |-> to, amount |-> amount, nonce |-> nonce,
     timestamp |-> now,
     signature |-> sign(IDENTITY.publicKeyPem,
                        <<IDENTITY.publicKeyHash, to, amount, nonce, now>>)]

\* POST /send at clock reading `now`
Send(to, amount, now) ==
    LET account == AccountOf(accounts, IDENTITY.publicKeyHash)
        tx == SendTx(to, amount, account.nonce + 1, now)
    IN /\ Len(pendingTransactions) < MaxPool
       /\ IF account.balance < amount
          THEN /\ Store(State)
               /\ last' = Step("send", NoBlock,
                               [ok |-> FALSE, error |-> "Insufficient balance",
                                vote |-> NoVote], {})
          ELSE /\ Store([State EXCEPT !.pendingTransactions = Append(@, tx)])
               /\ last' = Step("send", tx, Ok,
                               IF DOMAIN peers = {} THEN {}
                               ELSE {[path |-> "/transaction", body |-> tx]})
       /\ UNCHANGED <<runs, ticks, heard, slashDebits>>

-----------------------------------------------------------------------------
(* Epoch loop.  runEpoch suspends at each await; an activation is kept in  *)
(* `runs` with the await it is suspended at:                               *)
(*   "challenges"  await issueChallages()                                  *)
(*   "proposing"   await broadcast('/propose', block)                      *)
(*   "delay"       await the 2 s timer                                     *)
(*   "committing"  await broadcast('/commit', state.proposedBlock)         *)
(*   "vctimer"     the follower's view-change timer is pending             *)
(***************************************************************************)

Run(id, amLeader, phase, block) ==
    [id |-> id, amLeader |-> amLeader, phase |-> phase, block |-> block]

\* Date.now() of a createBlock call: later activations and later ticks read
\* later clocks.
ClockOf(tick, id) == tick * 10 + id

\* The receipt a peer returns to challenge number i of an epoch.
Receipt(epoch, peer, i) ==
    [challengeId |-> <<epoch, NODE_NAME, i>>, from |-> NODE_NAME, to |-> peer,
     epoch |-> epoch, success |-> TRUE,
     signature |-> sign(KeyOf(peer), <<epoch, NODE_NAME, i>>)]

\* issueChallages: the receipts of the peers that answered.
issueChallages(epoch, responders) ==
    LET ordered == SetToSeq(responders)
    IN [i \in DOMAIN ordered |-> Receipt(epoch, ordered[i], i)]

\* runEpoch after the challenges, for the leader: build, store, own vote.
ProposeOwn(s, id, receipts) ==
    LET block == createBlock(s.chain, s.accounts, s.peers, s.effectiveness,
                             s.currentEpoch, ClockOf(ticks, id),
                             s.pendingReceipts \o receipts, s.pendingTransactions)
    IN [s EXCEPT !.proposedBlock = block,
                 !.votes = Put(@, NODE_NAME, sign(IDENTITY.publicKeyPem, block.hash))]

\* The synchronous head of runEpoch.
StartEpoch(s) ==
    [s EXCEPT !.currentEpoch = @ + 1, !.currentView = 0,
              !.viewChangeVotes = EmptyMap, !.proposedBlock = NoBlock,
              !.votes = EmptyMap]

\* With no peer to challenge or to send to, issueChallages and broadcast
\* await nothing, so the activation runs on to the 2 s timer.
RunEpochStart ==
    /\ ticks < MaxTicks
    /\ ticks' = ticks + 1
    /\ LET s == StartEpoch(State)
           id == ticks + 1
           amLeader == electLeader(s.peers, s.currentView, s.currentEpoch) = NODE_NAME
       IN IF DOMAIN peers = {}
          THEN LET s2 == ProposeOwn(s, id, << >>)
               IN /\ Store(s2)
                  /\ runs' = runs \cup {Run(id, TRUE, "delay", s2.proposedBlock)}
          ELSE /\ Store(s)
               /\ runs' = runs \cup {Run(id, amLeader, "challenges", NoBlock)}
    /\ last' = Done("runEpoch")
    /\ UNCHANGED <<heard, slashDebits>>

\* issueChallages() returned.
RunEpochPropose(r, responders) ==
    /\ r \in runs /\ r.phase = "challenges"
    /\ responders \subseteq DOMAIN peers
    /\ IF r.amLeader
       THEN LET s == ProposeOwn(State, r.id, issueChallages(currentEpoch, responders))
            IN /\ Store(s)
               /\ runs' = (runs \ {r}) \cup
                          {Run(r.id, TRUE, IF DOMAIN peers = {} THEN "delay" ELSE "proposing",
                               s.proposedBlock)}
               /\ last' = Step("propose-own",
                               [receipts |-> issueChallages(currentEpoch, responders)], Ok,
                               IF DOMAIN peers = {} THEN {}
                               ELSE {[path |-> "/propose", body |-> s.proposedBlock]})
       ELSE /\ Store(State)
            /\ runs' = (runs \ {r}) \cup {Run(r.id, FALSE, "vctimer", NoBlock)}
            /\ last' = Step("propose-own",
                            [receipts |-> issueChallages(currentEpoch, responders)], Ok, {})
    /\ UNCHANGED <<ticks, heard, slashDebits>>

RECURSIVE HandleVotes(_, _)
HandleVotes(s, responses) ==
    IF responses = << >> THEN s
    ELSE HandleVotes(handleVote(s, Head(responses)), Tail(responses))

\* broadcast('/propose') returned: the votes in the responses are handled.
RunEpochCollect(r, responses) ==
    /\ r \in runs /\ r.phase = "proposing"
    /\ LET s == HandleVotes(State, responses)
       IN /\ Len(s.chain) <= MaxChain
          /\ Store(s)
    /\ runs' = (runs \ {r}) \cup {Run(r.id, TRUE, "delay", r.block)}
    /\ last' = Done("collect")
    /\ UNCHANGED <<ticks, heard, slashDebits>>

\* The 2 s timer fired: commit with what we have, or give up.
RunEpochFinish(r) ==
    /\ r \in runs /\ r.phase = "delay"
    /\ IF proposedBlock = NoBlock
       THEN /\ Store(State)
            /\ runs' = runs \ {r}
            /\ last' = Done("finish")
       ELSE IF Cardinality(DOMAIN votes) >= VotesNeeded(Cardinality(DOMAIN peers) + 1)
       THEN LET committed == [proposedBlock EXCEPT !.votes = votes]
                s == commitBlock([State EXCEPT !.proposedBlock = committed,
                                               !.seenProposals =
                                                   LedgerWithVotes(@, proposedBlock, votes)],
                                 committed)
            IN /\ Len(s.chain) <= MaxChain
               /\ IF DOMAIN peers = {}
                  THEN /\ Store([s EXCEPT !.proposedBlock = NoBlock, !.votes = EmptyMap])
                       /\ runs' = runs \ {r}
                       /\ last' = Done("finish")
                  ELSE /\ Store(s)
                       /\ runs' = (runs \ {r}) \cup {Run(r.id, TRUE, "committing", r.block)}
                       /\ last' = Step("finish", NoBlock, Ok,
                                       {[path |-> "/commit", body |-> committed]})
       ELSE /\ Store([State EXCEPT !.proposedBlock = NoBlock, !.votes = EmptyMap])
            /\ runs' = runs \ {r}
            /\ last' = Done("finish")
    /\ UNCHANGED <<ticks, heard, slashDebits>>

\* broadcast('/commit') returned.
RunEpochClear(r) ==
    /\ r \in runs /\ r.phase = "committing"
    /\ Store([State EXCEPT !.proposedBlock = NoBlock, !.votes = EmptyMap])
    /\ runs' = runs \ {r}
    /\ last' = Done("clear")
    /\ UNCHANGED <<ticks, heard, slashDebits>>

\* checkViewChange, once the elapsed time exceeds viewChangeTimeoutMs.
checkViewChange(s) ==
    IF s.proposedBlock = NoBlock
    THEN [s EXCEPT !.currentView = @ + 1, !.viewChangeVotes = EmptyMap]
    ELSE s

\* The follower's timer fired.  The epoch that began with this activation
\* has lasted longer than the timeout; a later epoch may not have.
ViewChangeTimer(r, elapsed) ==
    /\ r \in runs /\ r.phase = "vctimer"
    /\ r.id = ticks => elapsed
    /\ LET fire == proposedBlock = NoBlock /\ currentView = 0 /\ elapsed
           s == IF fire THEN checkViewChange(State) ELSE State
       IN /\ Store(s)
          /\ last' = Step("vctimer", NoBlock, Ok,
                          IF fire
                          THEN {[path |-> "/view-change",
                                 body |-> [epoch |-> s.currentEpoch,
                                           oldView |-> currentView,
                                           newView |-> s.currentView,
                                           from |-> NODE_NAME,
                                           signature |->
                                             sign(IDENTITY.publicKeyPem,
                                                  <<s.currentEpoch, s.currentView>>)]]}
                          ELSE {})
    /\ runs' = runs \ {r}
    /\ UNCHANGED <<ticks, heard, slashDebits>>

-----------------------------------------------------------------------------
(* What the peers send.  n2 is the peer whose blocks reach the node.       *)

\* n2's block for epoch 1 on the genesis head, and its block for epoch 2 on
\* the first.
B1 == NetBlock(1, ZeroHash, "n2", KeyOf("n2"), << >>, EmptyMap)
B2 == NetBlock(2, B1.hash, "n2", KeyOf("n2"), << >>, EmptyMap)

\* /propose bodies.
NetProposals == {B1, B2}

\* /commit bodies: a block with two proper votes, with two entries that are
\* no signatures, and the first block with a single vote.
NetCommits ==
    UNION {{[b EXCEPT !.votes = v] :
               v \in {VotesOf(b, {"n2", "n3"}), JunkVotes({"n2", "n3"})}} :
           b \in {B1, B2}}
    \cup {[B1 EXCEPT !.votes = VotesOf(B1, {"n2"})]}

\* /vote bodies: votes of the peers for the active proposal, properly signed
\* or not.
NetVotes ==
    IF proposedBlock = NoBlock THEN {}
    ELSE {VoteMsg(v, KeyOf(v), proposedBlock.hash, sign(KeyOf(v), proposedBlock.hash)) :
              v \in PeerNames}
         \cup {VoteMsg("n3", KeyOf("n3"), proposedBlock.hash, Forged(proposedBlock.hash))}

\* Responses to broadcast('/propose', block): each peer's vote or none.
Responses(block) ==
    {SetToSeq({VoteMsg(v, KeyOf(v), block.hash, sign(KeyOf(v), block.hash)) : v \in V}) :
        V \in SUBSET DOMAIN peers}

NetViewChanges ==
    {[epoch |-> currentEpoch, oldView |-> 0, newView |-> 1, from |-> f] : f \in PeerNames}

\* The chain a peer serves on /chain.
PeerChains ==
    LET c1 == [B1 EXCEPT !.votes = VotesOf(B1, {"n2", "n3"})]
        c2 == [B2 EXCEPT !.votes = VotesOf(B2, {"n2", "n3"})]
    IN {<<c1>>, <<c1, c2>>}

-----------------------------------------------------------------------------
(* The node as a follower: the peer registry, the inbound consensus        *)
(* messages and the chain sync of the gossip loop.                         *)

Next ==
    \/ \E id \in PeerNames : Announce(id)
    \/ \E id \in PeerNames : EvictPeer(id)
    \/ \E b \in NetProposals : Propose(b)
    \/ \E v \in NetVotes : Vote(v)
    \/ \E b \in NetCommits : Commit(b)
    \/ \E c \in PeerChains : GossipSync(c)

Spec == Init /\ [][Next]_vars

\* C1: epoch numbers along the committed chain are strictly increasing from
\* one block to the next.
EpochsStrictlyIncrease ==
    \A i \in 1..(Len(chain) - 1) : chain[i].epoch < chain[i + 1].epoch

\* C2: the first block of the chain has the zero hash as previousHash, and
\* every other block has the hash of the block before it.
PreviousHashLinked ==
    \A i \in DOMAIN chain :
        chain[i].previousHash = (IF i = 1 THEN ZeroHash ELSE chain[i - 1].hash)

\* C3: a block appended to the chain carries at least
\* ceil(N * quorumFraction) votes, N being the node's peers plus itself at
\* the moment of the append.
AppendHasQuorum ==
    [][(Len(chain') = Len(chain) + 1 /\ SubSeq(chain', 1, Len(chain)) = chain)
         => Cardinality(DOMAIN chain'[Len(chain')].votes)
              >= VotesNeeded(Cardinality(DOMAIN peers) + 1)]_vars

\* C4: every entry votes[v] of a committed block is a signature by v over
\* that block's hash.
VotesSignBlockHash ==
    \A i \in DOMAIN chain : \A v \in DOMAIN chain[i].votes :
        verify(chain[i].hash, chain[i].votes[v], KeyOf(v))

\* A committed block carrying a peer's genuine vote for another proposal.
StaleVoteCommitted ==
    \E i \in DOMAIN chain : \E v \in DOMAIN chain[i].votes :
        /\ chain[i].votes[v].signer = KeyOf(v)
        /\ chain[i].votes[v].msg # chain[i].hash

-----------------------------------------------------------------------------
(* Proposal handling: the proposals a follower may be sent, well formed or *)
(* not, against ledgers that committed blocks have funded.                 *)

\* n2 spends 400 of its balance.
Spend == TxTransfer(KeyOf("n2"), "a2", "a3", 400, 1)

\* n3's block for epoch 1 listing the transfer.
B1Spend == NetBlock(1, ZeroHash, "n3", KeyOf("n3"), <<Spend>>, EmptyMap)

\* /propose bodies, well formed or not.
TestProposals == {B1, B2, WithBadHash(B1), WithBadHash(B2), B1Spend}

\* Committed blocks that pay n2 a reward above and below slashAmount.
Funding(amount) ==
    LET b == NetBlock(1, ZeroHash, "n3", KeyOf("n3"), << >>, Put(EmptyMap, "a2", amount))
    IN [b EXCEPT !.votes = VotesOf(b, {"n2", "n3"})]

FundingCommits == {Funding(600), Funding(300)}

NextProposal ==
    \/ \E id \in PeerNames : Announce(id)
    \/ \E b \in TestProposals : Propose(b)
    \/ \E b \in FundingCommits : Commit(b)

SpecProposal == Init /\ [][NextProposal]_vars

\* C5: a vote is returned on /propose only for a block whose leader is the
\* leader elected for the block's epoch at the current view.
VoteOnlyForElectedLeader ==
    (last.op = "propose" /\ last.response.ok)
        => last.arg.leader = electLeader(peers, currentView, last.arg.epoch)

\* C6: a block whose hash is not the hash of its contents, or whose
\* leaderSignature does not verify under leaderPubKey, is never voted for and
\* never stored as the active proposal.
NoVoteForBadSeal ==
    /\ (last.op = "propose" /\ last.response.ok)
           => (HashMatches(last.arg) /\ SignatureValid(last.arg))
    /\ proposedBlock # NoBlock
           => (HashMatches(proposedBlock) /\ SignatureValid(proposedBlock))

\* C7: a proposal listing a transaction that fails the sequential filter
\* against the follower's ledger is never voted for.
NoVoteForInvalidTransaction ==
    (last.op = "propose" /\ last.response.ok)
        => FilterTxs(accounts, last.arg.transactions, EmptyMap, EmptyMap, << >>)
               = last.arg.transactions

-----------------------------------------------------------------------------
(* Equivocation: blocks for epoch 1 under the leader name n2.              *)

EquivocationProposals ==
    {B1,
     Conflicting(B1),                      \* n2 signs a second block
     Impostor(B1, KeyOf("n3")),            \* n3 builds and signs a block naming n2
     Impostor(B1, BadKey),                 \* a key that does not parse
     WithForgedSignature(Conflicting(B1))} \* nobody signed it

NextSlash ==
    \/ \E b \in EquivocationProposals : Propose(b)
    \/ \E b \in FundingCommits : Commit(b)

SpecSlash == Init /\ [][NextSlash]_vars

\* The entries of the equivocation ledger for the epoch of `block` that name
\* the same leader under another hash.
HeldConflicts(block) ==
    IF Has(seenProposals, block.epoch)
    THEN {seenProposals[block.epoch][h] : h \in Conflicts(seenProposals[block.epoch], block)}
    ELSE {}

\* The proposal just handled was refused and the address of its key is
\* slashed.
RefusedAndSlashed ==
    /\ ~last.response.ok
    /\ last.response.vote = NoVote
    /\ proposedBlock # last.arg
    /\ AddressOf(last.arg.leaderPubKey) \in slashedNodes

\* C8 (amended): when a validly signed block B2 arrives on /propose while the
\* equivocation ledger holds a validly signed block B1 of the same leader and
\* epoch under a different hash, B2 is refused (no vote, not the active
\* proposal) and the address derived from B2's leaderPubKey is slashed.
HeldConflictRefusedAndSlashed ==
    (/\ last.op = "propose"
     /\ SignatureValid(last.arg)
     /\ \E b1 \in HeldConflicts(last.arg) : SignatureValid(b1))
        => RefusedAndSlashed

\* A second block of n2 for epoch 1 has just been refused with B1 in the
\* ledger.
SecondBlockRefused ==
    /\ last.op = "propose"
    /\ last.arg = Conflicting(B1)
    /\ B1 \in HeldConflicts(last.arg)
    /\ last.response.error = "Equivocation detected"
    /\ "a2" \in slashedNodes

\* C8: when a validly signed block B2 arrives on /propose after a validly
\* signed block B1 of the same leader and epoch with a different hash was
\* received, the epoch still being in the ledger, B2 is refused and the
\* leader's address is slashed.
ReceivedConflictRefusedAndSlashed ==
    (/\ last.op = "propose"
     /\ SignatureValid(last.arg)
     /\ Has(seenProposals, last.arg.epoch)
     /\ \E b1 \in heard : /\ b1.leader = last.arg.leader
                          /\ b1.epoch = last.arg.epoch
                          /\ b1.hash # last.arg.hash
                          /\ SignatureValid(b1))
        => RefusedAndSlashed

\* C9: an address is slashed only when two distinct blocks of one leader for
\* one epoch were received, each with a leaderSignature that verifies under
\* the key the address is derived from.
SlashNeedsTwoSignedBlocks ==
    \A a \in slashedNodes :
        \E b1 \in heard, b2 \in heard :
            /\ b1.hash # b2.hash
            /\ b1.leader = b2.leader
            /\ b1.epoch = b2.epoch
            /\ \A b \in {b1, b2} : /\ SignatureValid(b)
                                   /\ AddressOf(b.leaderPubKey) = a

\* C10: the step that first slashes an address debits
\* min(balance, slashAmount) from its account and adds one to slashEvents;
\* equivocation evidence against an address already slashed changes neither
\* its balance nor slashEvents.
SlashedOnce ==
    [][\A a \in {AddressOf(k) : k \in Keys} :
          /\ (a \notin slashedNodes /\ a \in slashedNodes')
                => /\ slashEvents' = slashEvents + 1
                   /\ AccountOf(accounts', a).balance
                        = AccountOf(accounts, a).balance
                          - Min2(AccountOf(accounts, a).balance, slashAmount)
          /\ (/\ a \in slashedNodes
              /\ last'.op = "propose"
              /\ last'.response.error = "Equivocation detected"
              /\ last'.arg.leaderPubKey \in Keys
              /\ AddressOf(last'.arg.leaderPubKey) = a)
                => /\ slashEvents' = slashEvents
                   /\ AccountOf(accounts', a) = AccountOf(accounts, a)]_vars

\* n2 held 600, was slashed to 100 by its second block, and a further
\* conflicting block under its key has just been refused: one slash event.
SlashedThenAccusedAgain ==
    /\ last.op = "propose"
    /\ last.response.error = "Equivocation detected"
    /\ last.arg = WithForgedSignature(Conflicting(B1))
    /\ Conflicting(B1) \in heard
    /\ "a2" \in slashedNodes
    /\ slashEvents = 1
    /\ AccountOf(accounts, "a2").balance = 100

-----------------------------------------------------------------------------
(* The ledger of a node that runs alone: it is the leader of every epoch   *)
(* and its own vote is a quorum.  Transactions reach the pool from the     *)
(* network, the faucet and /send; a peer's committed block may arrive.     *)

\* n2 spends from its balance twice under nonce 1.
SpendAgain == TxTransfer(KeyOf("n2"), "a2", "a1", 300, 1)

\* The first transfer with a signature n2 did not make.
SpendForged == [Spend EXCEPT !.signature = Forged(<<"a2", "a3", 400, 1>>)]

\* A coinbase transaction for n2, as anybody can post it.
Mint == TxCoinbase("a2", 600)

\* A transfer whose nonce is two ahead of a fresh sender's.
SpendAhead == TxTransfer(KeyOf("n2"), "a2", "a3", 100, 2)
NetTransactions == {Spend, SpendAgain, SpendForged, SpendAhead, Mint}

\* A peer's committed block that lists both transfers of nonce 1.
DoubleSpendBlock ==
    LET b == NetBlock(1, ZeroHash, "n2", KeyOf("n2"), <<Spend, SpendAgain>>,
                      Put(EmptyMap, "a2", 700))
    IN [b EXCEPT !.votes = VotesOf(b, {"n2", "n3"})]

\* A block of n2 with one transfer, properly hashed and signed, whose txRoot
\* is the root of no transactions.
WrongRootBlock ==
    LET b == NetBlock(1, ZeroHash, "n2", KeyOf("n2"), <<Spend>>, Put(EmptyMap, "a2", 700))
        sealed == SealBlock([BlockData(b) EXCEPT !.txRoot = ZeroHash], KeyOf("n2"))
    IN [sealed EXCEPT !.votes = VotesOf(sealed, {"n2", "n3"})]

NextLedger ==
    \/ \E tx \in NetTransactions : Transaction(tx)
    \/ Len(pendingTransactions) < MaxPool /\ Faucet(faucetAmount, ClockOf(ticks, 1))
    \/ Send("a2", 100, ClockOf(ticks, 1))
    \/ RunEpochStart
    \/ \E r \in runs : RunEpochFinish(r)
    \/ \E b \in {DoubleSpendBlock, WrongRootBlock} : Commit(b)

SpecLedger == Init /\ [][NextLedger]_vars

\* Sum of f over the indices of a sequence.
RECURSIVE SumSeq(_)
SumSeq(numbers) ==
    IF numbers = << >> THEN 0 ELSE Head(numbers) + SumSeq(Tail(numbers))

\* Rewards and coinbase amounts of a block.
MintedBy(block) ==
    SumOver(block.rewards, DOMAIN block.rewards)
    + SumSeq([i \in DOMAIN block.transactions |->
                 IF block.transactions[i].from = Coinbase
                 THEN block.transactions[i].amount ELSE 0])

\* C11: the sum of the balances of all accounts equals the rewards and
\* coinbase amounts of the committed blocks minus the slash debits applied.
Conservation ==
    SumBalances(accounts)
        = SumSeq([i \in DOMAIN chain |-> MintedBy(chain[i])]) - slashDebits

\* C12: no account keyed "coinbase" is created by committing a coinbase
\* transaction.
CoinbaseNeverDebited == ~Has(accounts, Coinbase)

\* C13: replaying the chain from an empty account map gives the account map
\* that the commits have maintained.
ReplayEqualsIncremental == rebuildStateFromChain(EmptyMap, chain) = accounts

\* The nonce rule checked along the application of a block's transactions:
\* each non-coinbase transaction carries its sender's nonce plus one, and
\* applying it raises that nonce by one.
RECURSIVE NoncesInOrder(_, _)
NoncesInOrder(acc, txs) ==
    IF txs = << >> THEN TRUE
    ELSE LET tx == Head(txs)
             before == AccountOf(acc, tx.from).nonce
             after == applyTransaction(acc, tx)
         IN /\ tx.from # Coinbase =>
                   /\ tx.nonce = before + 1
                   /\ AccountOf(after, tx.from).nonce = before + 1
            /\ NoncesInOrder(after, Tail(txs))

\* C14: every non-coinbase transaction of an appended block has the nonce of
\* its sender's account just before it is applied plus one, and applying it
\* raises that nonce by exactly one.
NonceMonotonicity ==
    [][(Len(chain') = Len(chain) + 1 /\ SubSeq(chain', 1, Len(chain)) = chain)
          => NoncesInOrder(accounts, chain'[Len(chain')].transactions)]_vars

\* The non-coinbase transactions of a chain, each with its position.
SpendsOf(ch) ==
    UNION {{<<i, j>> : j \in {k \in DOMAIN ch[i].transactions :
                                 ch[i].transactions[k].from # Coinbase}}
           : i \in DOMAIN ch}

\* C16: the chain never holds two non-coinbase transactions with the same
\* sender and nonce.
OnePerSenderNonce ==
    \A p, q \in SpendsOf(chain) :
        LET t == chain[p[1]].transactions[p[2]]
            u == chain[q[1]].transactions[q[2]]
        IN (t.from = u.from /\ t.nonce = u.nonce) => p = q

\* C17: a transaction of a block that this node built and committed is in
\* no block that it built later, whatever was submitted on /transaction in
\* between.  (Committing a block removes its transactions from the pool, so
\* a transaction of an earlier block is in the pool again only by being
\* resubmitted.)
CommittedNeverRebuilt ==
    \A i, j \in DOMAIN chain :
        (i < j /\ chain[i].leader = NODE_NAME /\ chain[j].leader = NODE_NAME) =>
            \A k \in DOMAIN chain[i].transactions :
                \A l \in DOMAIN chain[j].transactions :
                    chain[i].transactions[k] # chain[j].transactions[l]

\* The single-pass filter over an overlay of the account map: a coinbase
\* transaction is kept and credits its recipient; any other is kept exactly
\* when the sender's overlay balance covers the amount and its nonce is the
\* overlay nonce plus one, and is then debited, bumped and credited.
RECURSIVE ReferenceFilter(_, _)
ReferenceFilter(overlay, txs) ==
    IF txs = << >> THEN << >>
    ELSE
      LET tx == Head(txs)
          sender == AccountOf(overlay, tx.from)
          credit(o) == Put(o, tx.to, [balance |-> AccountOf(o, tx.to).balance + tx.amount,
                                      nonce |-> AccountOf(o, tx.to).nonce])
          debited == Put(overlay, tx.from, [balance |-> sender.balance - tx.amount,
                                            nonce |-> sender.nonce + 1])
      IN IF tx.from = Coinbase
         THEN <<tx>> \o ReferenceFilter(credit(overlay), Tail(txs))
         ELSE IF sender.balance >= tx.amount /\ tx.nonce = sender.nonce + 1
         THEN <<tx>> \o ReferenceFilter(credit(debited), Tail(txs))
         ELSE ReferenceFilter(overlay, Tail(txs))

\* C15: the transaction list of a block this node builds is the reference
\* single-pass filter of the pending transactions over the account map.
BlockHoldsReferenceFilter ==
    [][(proposedBlock' # proposedBlock /\ proposedBlock' # NoBlock
        /\ proposedBlock'.leader = NODE_NAME)
          => proposedBlock'.transactions
                 = ReferenceFilter(accounts, pendingTransactions)]_vars

\* A built block that kept a transfer and left out a later pending transfer
\* of the same sender whose amount the sender could still pay.
KeptOneRejectedByNonce ==
    /\ proposedBlock # NoBlock
    /\ proposedBlock.leader = NODE_NAME
    /\ Len(pendingTransactions) = 2
    /\ proposedBlock.transactions = <<pendingTransactions[1]>>
    /\ pendingTransactions[1].from # Coinbase
    /\ pendingTransactions[2].from = pendingTransactions[1].from
    /\ AccountOf(accounts, pendingTransactions[1].from).balance
           >= pendingTransactions[1].amount + pendingTransactions[2].amount

\* Entries of a pool that bear a signature.
WithSignature(pending, signature) ==
    {i \in DOMAIN pending : pending[i].signature = signature}

\* C18: delivering a transaction on /transaction a second time leaves the
\* pool as the first delivery left it, and a delivery adds no entry whose
\* signature a pending entry already bears.
DeliveryIdempotent ==
    \A tx \in NetTransactions :
        LET once == submitTransaction(pendingTransactions, tx)
        IN /\ submitTransaction(once, tx) = once
           /\ WithSignature(pendingTransactions, tx.signature) # {}
                  => once = pendingTransactions

\* A delivery on /transaction that was absorbed: the pool is the one queued
\* faucet transaction, whose signature the delivered one bears.
DeliveryAbsorbed ==
    /\ last.op = "transaction"
    /\ Len(pendingTransactions) = 1
    /\ pendingTransactions[1].to = IDENTITY.publicKeyHash
    /\ pendingTransactions[1].signature = Mint.signature

\* C18 as stated: the pool never holds two entries with the same signature.
PoolSignaturesDistinct ==
    \A i, j \in DOMAIN pendingTransactions :
        pendingTransactions[i].signature = pendingTransactions[j].signature => i = j

\* The signature of a transaction was made with the key whose hash is the
\* transaction's from address.
SignedBySender(tx) ==
    \E pk \in Keys : AddressOf(pk) = tx.from /\ tx.signature.signer = pk

\* C19: every non-coinbase transaction of a block that this node built and
\* committed bears a signature made with the key of its from address.
BuiltBlocksHoldSignedTransfers ==
    \A i \in DOMAIN chain :
        chain[i].leader = NODE_NAME =>
            \A k \in DOMAIN chain[i].transactions :
                chain[i].transactions[k].from # Coinbase
                    => SignedBySender(chain[i].transactions[k])

-----------------------------------------------------------------------------
(* Merkle roots of the blocks a solo leader builds from faucet pools *)

NextMerkle ==
    \/ /\ Len(pendingTransactions) < MaxLeaves
       /\ \E amount \in {faucetAmount, faucetAmount \div 2} :
              Faucet(amount, ClockOf(ticks, 1))
    \/ RunEpochStart
    \/ \E r \in runs : RunEpochFinish(r)

SpecMerkle == Init /\ [][NextMerkle]_vars

\* The root by levels: an odd level is first extended by a copy of its last
\* node, then adjacent nodes are paired under the hash of left + right,
\* until one node remains.
RECURSIVE ReferenceRoot(_)
ReferenceRoot(level) ==
    IF level = << >> THEN ZeroHash
    ELSE IF Len(level) = 1 THEN level[1]
    ELSE LET even == IF Len(level) % 2 = 1 THEN Append(level, level[Len(level)])
                     ELSE level
         IN ReferenceRoot([k \in 1..(Len(even) \div 2) |->
                              hash(Concat(even[2 * k - 1], even[2 * k]))])

\* The blocks this node has built: the active proposal and its own blocks of
\* the chain.
BuiltBlocks ==
    {chain[i] : i \in {k \in DOMAIN chain : chain[k].leader = NODE_NAME}}
    \cup (IF proposedBlock # NoBlock /\ proposedBlock.leader = NODE_NAME
          THEN {proposedBlock} ELSE {})

\* C20: calculateMerkleRoot gives the reference root of every list of leaf
\* hashes: of the pending pool's, and of the transactions and receipts of
\* every block built, whose txRoot and receiptRoot it computed.
MerkleRootIsReference ==
    /\ calculateMerkleRoot(HashesOf(pendingTransactions))
           = ReferenceRoot(HashesOf(pendingTransactions))
    /\ \A b \in BuiltBlocks :
           /\ b.txRoot = ReferenceRoot(HashesOf(b.transactions))
           /\ b.receiptRoot = ReferenceRoot(HashesOf(b.receipts))

\* A built block of five transactions: levels of 5, 3, 2 and 1 nodes.
BuiltFiveLeaves ==
    \E b \in BuiltBlocks :
        /\ Len(b.transactions) = 5
        /\ b.transactions[4] # b.transactions[5]
        /\ b.txRoot # ZeroHash

-----------------------------------------------------------------------------
(* Merkle proofs served for the blocks a solo leader has committed *)

\* GET /proof/<txHash>: the first block of the chain holding a transaction
\* with that hash, and the proof for it.
proofResponse(ch, txHash) ==
    LET holders == {i \in DOMAIN ch :
                       IndexOf(HashesOf(ch[i].transactions), txHash) # 0}
    IN IF holders = {} THEN [found |-> FALSE]
       ELSE LET block == ch[CHOOSE i \in holders : \A j \in holders : i <= j]
            IN [found |-> TRUE, blockEpoch |-> block.epoch, blockHash |-> block.hash,
                txRoot |-> block.txRoot, proof |-> getMerkleProof(block, txHash)]

Proof(txHash) ==
    /\ Store(State)
    /\ last' = Step("proof", txHash, proofResponse(chain, txHash), {})
    /\ UNCHANGED <<runs, ticks, heard, slashDebits>>

\* The hashes of the transactions of a chain.
TxHashesOf(ch) ==
    UNION {{hash(ch[i].transactions[k]) : k \in DOMAIN ch[i].transactions}
           : i \in DOMAIN ch}

\* Faucet requests arrive in distinct milliseconds here, so that the leaves
\* of a block differ.
NextProof ==
    \/ /\ Len(pendingTransactions) < MaxLeaves
       /\ Faucet(faucetAmount, ClockOf(ticks, Len(pendingTransactions) + 1))
    \/ RunEpochStart
    \/ \E r \in runs : RunEpochFinish(r)
    \/ \E txHash \in TxHashesOf(chain) \cup {hash(Mint)} : Proof(txHash)

SpecProof == Init /\ [][NextProof]_vars

\* C21: the proof that getMerkleProof gives for the hash of any transaction
\* of a built block verifies against the Merkle root of the block's
\* transaction hashes, getMerkleProof gives null for a hash that is no leaf,
\* and a proof served on /proof verifies against the txRoot served with it.
MerkleProofRoundTrip ==
    /\ \A b \in BuiltBlocks :
           /\ \A k \in DOMAIN b.transactions :
                  verifyMerkleProof(hash(b.transactions[k]),
                                    getMerkleProof(b, hash(b.transactions[k])),
                                    calculateMerkleRoot(HashesOf(b.transactions)))
           /\ getMerkleProof(b, hash(Mint)) = NoProof
    /\ (last.op = "proof" /\ last.response.found)
           => verifyMerkleProof(last.arg, last.response.proof, last.response.txRoot)

\* A proof served for the fifth of five leaves, the unpaired node of two
\* levels.
ProofOfLastOddLeaf ==
    /\ last.op = "proof"
    /\ last.response.found
    /\ Len(last.response.proof) = 3
    /\ \E i \in DOMAIN chain :
           /\ Len(chain[i].transactions) = 5
           /\ last.arg = hash(chain[i].transactions[5])
           /\ last.response.blockHash = chain[i].hash

\* C22: in every block of the chain, txRoot is the Merkle root of the hashes
\* of its transactions and receiptRoot that of its receipts.
MerkleConsistency ==
    \A i \in DOMAIN chain :
        /\ chain[i].txRoot = calculateMerkleRoot(HashesOf(chain[i].transactions))
        /\ chain[i].receiptRoot = calculateMerkleRoot(HashesOf(chain[i].receipts))

-----------------------------------------------------------------------------
(* The epoch loop of a node with peers: leader of epochs 1 and 2, follower *)
(* of epoch 3, which it reaches after syncing a peer's chain of two blocks. *)

\* The chain of two blocks a peer serves on /chain.
SyncedChain ==
    <<[B1 EXCEPT !.votes = VotesOf(B1, {"n2", "n3"})],
      [B2 EXCEPT !.votes = VotesOf(B2, {"n2", "n3"})]>>

\* The leader's epochs with the peers n2 and n3, of which n3 may fall silent
\* and be deleted; the peers registered answer the challenges.
NextLeader ==
    \/ \E id \in PeerNames : Announce(id)
    \/ EvictPeer("n3")
    \/ RunEpochStart
    \/ \E r \in runs : RunEpochPropose(r, DOMAIN peers)
    \/ \E r \in {x \in runs : x.phase = "proposing"} :
           \E responses \in Responses(r.block) : RunEpochCollect(r, responses)
    \/ \E r \in runs : RunEpochFinish(r)
    \/ \E r \in runs : RunEpochClear(r)

SpecLeader == Init /\ [][NextLeader]_vars

\* The follower's epoch: view-change timer and view-change messages.
NextView ==
    \/ \E id \in PeerNames : Announce(id)
    \/ GossipSync(SyncedChain)
    \/ RunEpochStart
    \/ \E r \in runs : RunEpochPropose(r, DOMAIN peers)
    \/ \E r \in {x \in runs : x.phase = "proposing"} :
           \E responses \in Responses(r.block) : RunEpochCollect(r, responses)
    \/ \E r \in runs : RunEpochFinish(r)
    \/ \E r \in runs : \E elapsed \in BOOLEAN : ViewChangeTimer(r, elapsed)
    \/ \E viewChange \in NetViewChanges : ViewChange(viewChange)

SpecView == Init /\ [][NextView]_vars


\* The addresses a block touches: those it rewards and the senders and
\* recipients of its transactions.
Touched(block) ==
    DOMAIN block.rewards
    \cup {block.transactions[k].from : k \in DOMAIN block.transactions}
    \cup {block.transactions[k].to : k \in DOMAIN block.transactions}

\* The digest of the entries addr:balance:nonce of an account map at a set
\* of addresses.
SnapshotRoot(acc, addrs) ==
    hash([entries |-> {<<a, acc[a].balance, acc[a].nonce>> : a \in addrs}])

\* C23: the stateRoot of a block this node builds is the digest of the
\* entries, as they stand after the block is committed, of the accounts the
\* block touches (with or without accounts it leaves alone).
StateRootCommitsToPostState ==
    [][(proposedBlock = NoBlock /\ proposedBlock' # NoBlock
        /\ proposedBlock'.leader = NODE_NAME)
          => LET after == AccountsAfterCommit(accounts, proposedBlock')
             IN \E others \in SUBSET (DOMAIN after \ Touched(proposedBlock')) :
                    proposedBlock'.stateRoot
                        = SnapshotRoot(after, Touched(proposedBlock') \cup others)]_vars

\* C27: a step in which this node, with peers registered, appends a block
\* of its own to its chain sends that block, votes attached, on /commit.
CommitIsBroadcast ==
    [][(Len(chain') = Len(chain) + 1 /\ chain'[Len(chain')].leader = NODE_NAME
        /\ DOMAIN peers' # {})
          => \E m \in last'.sent :
                 m.path = "/commit" /\ m.body = chain'[Len(chain')]]_vars

\* The 2 s timer of an activation fired after the block it proposed had been
\* committed by handleVote: nothing was sent.
CommittedByVoteThenTimer ==
    /\ last.op = "finish"
    /\ last.sent = {}
    /\ DOMAIN peers # {}
    /\ proposedBlock = NoBlock
    /\ \E i \in DOMAIN chain :
           chain[i].leader = NODE_NAME /\ chain[i].epoch = currentEpoch

-----------------------------------------------------------------------------
(* Leader election over the registries that /announce can produce; no peer *)
(* answers a challenge or a proposal.                                       *)

NextElection ==
    \/ \E id \in Names : Announce(id)
    \/ \E id \in Names : EvictPeer(id)
    \/ RunEpochStart
    \/ \E r \in runs : RunEpochPropose(r, {})
    \/ \E r \in runs : RunEpochCollect(r, << >>)
    \/ \E r \in runs : RunEpochFinish(r)
    \/ \E r \in runs : \E elapsed \in BOOLEAN : ViewChangeTimer(r, elapsed)

SpecElection == Init /\ [][NextElection]_vars

\* electLeader as the node `self` whose registry holds the names `names`
\* computes it: [self, ...names].sort(), indexed by the epoch hash.
electLeaderAt(self, names, view, epoch) ==
    LET RECURSIVE Ordered(_)
        Ordered(S) == IF S = {} THEN << >>
                      ELSE LET m == CHOOSE x \in S : \A y \in S : NameRank(x) <= NameRank(y)
                           IN <<m>> \o Ordered(S \ {m})
        sorted == Ordered({self} \cup names)
        at == CHOOSE i \in DOMAIN sorted : sorted[i] = self
        allNodes == IF self \in names
                    THEN SubSeq(sorted, 1, at) \o SubSeq(sorted, at, Len(sorted))
                    ELSE sorted
    IN allNodes[PrefixMod(EpochHashPrefix(epoch, view), Len(allNodes)) + 1]

\* C24: for every epoch, the leader this node computes is one of its
\* validators (its own name and its peers' names), and every other node
\* with the same set of validators and the same view computes the same
\* leader.
LeaderElectionDeterministic ==
    \A epoch \in 1..(MaxTicks + 1) :
        LET validators == {NODE_NAME} \cup DOMAIN peers
            leader == electLeader(peers, currentView, epoch)
        IN /\ leader \in validators
           /\ \A other \in validators \ {NODE_NAME} :
                  electLeaderAt(other, validators \ {other}, currentView, epoch) = leader

\* The tally of view-change messages for an epoch and a view.
ViewChangeTally(tallies, epoch, view) ==
    IF Has(tallies, <<epoch, view>>) THEN Cardinality(tallies[<<epoch, view>>]) ELSE 0

\* C25: within an epoch the view rises only when the node has tallied
\* view-change messages for the new view from a quorum of validators.
ViewRisesOnlyAtQuorum ==
    [][(currentEpoch' = currentEpoch /\ currentView' > currentView)
          => ViewChangeTally(viewChangeVotes', currentEpoch, currentView')
                 >= VotesNeeded(Cardinality(DOMAIN peers) + 1)]_vars

\* The node keeps running: timers fire, awaits return and the epoch loop
\* starts the epochs the bound allows.
SpecViewFair == SpecView /\ WF_vars(NextView)

\* C26: when this node is the leader elected for view 1 of epoch 3, the view
\* having moved on from the silent leader of view 0, it builds and proposes
\* a block of epoch 3.
NewLeaderProposes ==
    (currentEpoch = 3 /\ currentView = 1
     /\ electLeader(peers, currentView, currentEpoch) = NODE_NAME)
        ~> (proposedBlock # NoBlock /\ proposedBlock.leader = NODE_NAME
            /\ proposedBlock.epoch = 3)

-----------------------------------------------------------------------------
(* Chain replacement against the active proposal *)

\* C28: after a step of the gossip loop that replaced the chain with a
\* peer's, the active proposal is absent or has the hash of the new head as
\* its previousHash.
ProposalFollowsReplacedChain ==
    [][(last'.op = "sync" /\ chain' # chain)
         => (proposedBlock' = NoBlock
             \/ proposedBlock'.previousHash = HeadHash(chain'))]_vars

-----------------------------------------------------------------------------
(* Cold sync: a fresh node that bootstraps from this node *)

\* GET /chain: state.chain.slice(-100)
ChainWindow == 100

chainResponse(ch) ==
    IF Len(ch) > ChainWindow THEN SubSeq(ch, Len(ch) - ChainWindow + 1, Len(ch)) ELSE ch

\* main(): the account map of a node with no chain of its own after it
\* fetched /chain from its bootstrap peer and replayed it.
coldSync(peerChain) ==
    LET fetched == chainResponse(peerChain)
    IN IF Len(fetched) > 0 THEN rebuildStateFromChain(EmptyMap, fetched) ELSE EmptyMap

\* C29: the account map a fresh node rebuilds from this node's /chain equals
\* this node's account map at every address.
ColdSyncReproducesLedger ==
    LET cold == coldSync(chain)
    IN \A a \in DOMAIN accounts \cup DOMAIN cold :
           AccountOf(accounts, a) = AccountOf(cold, a)

-----------------------------------------------------------------------------
(* Proposals that do not extend the local head *)

\* C30: a proposal whose previousHash is not the hash of the local head (of
\* a chain that has one) is stored and voted for only if its hash and its
\* leader signature verify and its epoch is the head's epoch plus one.
MismatchAcceptedOnlyAsSuccessor ==
    [][(/\ last'.op = "propose"
        /\ last'.response.ok
        /\ chain # << >>
        /\ last'.arg.previousHash # HeadHash(chain))
         => (/\ HashMatches(last'.arg)
             /\ SignatureValid(last'.arg)
             /\ last'.arg.epoch = chain[Len(chain)].epoch + 1)]_vars

-----------------------------------------------------------------------------
(* The quorum threshold *)

\* C31: the number of votes the node requires for a commit or a view change
\* is ceil(2N/3), N being the node's peers plus itself.
QuorumIsTwoThirds ==
    LET totalNodes == Cardinality(DOMAIN peers) + 1
    IN VotesNeeded(totalNodes) = CeilDiv(2 * totalNodes, 3)

-----------------------------------------------------------------------------
(* Persistence: the node stops and is started again on its DATA_DIR *)

\* loadChain at the start of main(): the state of a started process, which
\* holds the chain and the accounts read from the two files.
loadChain(d) ==
    [peers |-> EmptyMap, chain |-> d.chain, pendingReceipts |-> << >>,
     pendingTransactions |-> << >>, accounts |-> d.accounts,
     currentEpoch |-> (IF Len(d.chain) > 0 THEN d.chain[Len(d.chain)].epoch ELSE 0),
     currentView |-> 0, proposedBlock |-> NoBlock, votes |-> EmptyMap,
     viewChangeVotes |-> EmptyMap, seenProposals |-> EmptyMap,
     slashedNodes |-> {}, slashEvents |-> 0, effectiveness |-> 0, disk |-> d]

\* The process stops between two handlers and is started again.
Restart ==
    /\ Store(loadChain(disk))
    /\ runs' = {}
    /\ last' = Done("restart")
    /\ UNCHANGED <<ticks, heard, slashDebits>>

\* POST /commit; the process stops in saveChain after chain.json was written
\* and before accounts.json is, and is started again.
CrashInSave(block) ==
    LET s == handleCommittedBlock(State, block)
    IN /\ s.chain # chain
       /\ Len(s.chain) <= MaxChain
       /\ Store(loadChain([chain |-> s.chain, accounts |-> disk.accounts]))
       /\ runs' = {}
       /\ last' = Done("restart")
       /\ UNCHANGED <<ticks, heard, slashDebits>>

NextCrash ==
    \/ \E id \in PeerNames : Announce(id)
    \/ \E b \in FundingCommits \cup NetCommits : Commit(b)
    \/ \E b \in FundingCommits \cup NetCommits : CrashInSave(b)
    \/ Restart

SpecCrash == Init /\ [][NextCrash]_vars

\* C32: a node that was started again holds the account map that replaying
\* its loaded chain gives, and holds no chain whose previousHash linkage is
\* broken.
RestartIsCrashConsistent ==
    last.op = "restart"
        => /\ \A a \in DOMAIN accounts \cup DOMAIN rebuildStateFromChain(EmptyMap, chain) :
                  AccountOf(accounts, a)
                      = AccountOf(rebuildStateFromChain(EmptyMap, chain), a)
           /\ \A i \in DOMAIN chain :
                  chain[i].previousHash = (IF i = 1 THEN ZeroHash ELSE chain[i - 1].hash)

-----------------------------------------------------------------------------
(* Balances *)

\* C33: every account of the account map has a balance of at least zero.
BalancesNonNegative ==
    \A a \in DOMAIN accounts : accounts[a].balance >= 0

-----------------------------------------------------------------------------
(* Votes that name another block than the active proposal *)

\* POST /vote with the vote of `voter` for `block`, the message kept in `last`.
VoteOn(voter, block) ==
    LET vote == VoteMsg(voter, KeyOf(voter), block.hash,
                        sign(KeyOf(voter), block.hash))
        s == handleVote(State, vote)
    IN /\ Len(s.chain) <= MaxChain
       /\ Store(s)
       /\ last' = Step("vote", vote, Ok, {})
       /\ UNCHANGED <<runs, ticks, heard, slashDebits>>

NextVote ==
    \/ Announce("n2")
    \/ Propose(B1)
    \* the peers' votes for n2's two blocks, whichever proposal is active
    \/ \E v \in PeerNames, b \in NetProposals : VoteOn(v, b)
    \/ \E viewChange \in NetViewChanges : ViewChange(viewChange)
    \/ RunEpochStart
    \/ \E r \in runs : RunEpochFinish(r)

SpecVote == Init /\ [][NextVote]_vars

\* C34: handling a vote that arrives when there is no active proposal, or
\* whose blockHash is not the active proposal's hash, leaves the vote map,
\* the chain and the accounts as they were.
VoteCountsOnlyForActiveProposal ==
    [][(/\ last'.op = "vote"
        /\ (proposedBlock = NoBlock \/ proposedBlock.hash # last'.arg.blockHash))
         => (votes' = votes /\ chain' = chain /\ accounts' = accounts)]_vars

\* A vote for another block was handled while a tally was in progress.
OtherVoteDuringTally ==
    /\ last.op = "vote"
    /\ proposedBlock # NoBlock
    /\ proposedBlock.hash # last.arg.blockHash
    /\ votes # EmptyMap

-----------------------------------------------------------------------------
(* Receipts obtained from challenges *)

\* C35: the receipts a node obtained from the challenges of an epoch and
\* verified are in its pending receipts afterwards, or in the block it
\* proposed with them, whether or not it is the leader of the epoch.
ReceiptsJoinPending ==
    [][last'.op = "propose-own"
         => \A i \in DOMAIN last'.arg.receipts :
                \/ last'.arg.receipts[i] \in Range(pendingReceipts')
                \/ /\ proposedBlock' # NoBlock
                   /\ last'.arg.receipts[i] \in Range(proposedBlock'.receipts)]_vars

-----------------------------------------------------------------------------
(* Calls to peers that fail *)

-----------------------------------------------------------------------------
(* Proposals that are refused *)

\* C37: a proposal refused for a hash mismatch, an invalid leader signature
\* or a receipt without signature leaves the chain, the accounts, the active
\* proposal, the vote map, the slashed set and the equivocation ledger as
\* they were.
RefusalLeavesNoTrace ==
    [][(/\ last'.op = "propose"
        /\ ~last'.response.ok
        /\ last'.response.error \in {"Hash mismatch", "Invalid signature", "Receipt"})
         => UNCHANGED <<chain, accounts, proposedBlock, votes, slashedNodes,
                        seenProposals>>]_vars

-----------------------------------------------------------------------------
(* The node's own proposals as a peer sees them *)

\* C38: the node never sends a proposal of its own that an honest peer,
\* which ran checkEquivocation on the proposal the node sent before, reports
\* as equivocation (a second, distinct block of the same leader and epoch).
NeverEquivocates ==
    [][(/\ last'.op = "propose-own"
        /\ last'.sent # {}
        /\ proposedBlock # NoBlock
        /\ proposedBlock.leader = NODE_NAME
        /\ [path |-> "/propose", body |-> proposedBlock'] \in last'.sent)
         => ~checkEquivocation(checkEquivocation(EmptyMap, proposedBlock)[2],
                               proposedBlock')[1]]_vars

-----------------------------------------------------------------------------
(* A block is applied once *)

\* C39: no block hash occurs twice in the chain.
BlockAppliedOnce ==
    \A i, j \in DOMAIN chain : i # j => chain[i].hash # chain[j].hash

-----------------------------------------------------------------------------
(* Who is counted *)

\* C40: a voter that handling a /vote message adds to the tally is the node
\* itself or a peer of its registry.
CountedVotesAreValidators ==
    [][last'.op = "vote"
         => \A v \in (DOMAIN votes') \ (DOMAIN votes) :
                v \in DOMAIN peers \cup {NODE_NAME}]_vars

====
